---- MODULE Spec2Model ----
(***************************************************************************)
(* The resilient request client of homeworks/resilience: Client,           *)
(* BackoffClient, MultiClient, HedgingMultiClient and                      *)
(* CircuitBreakerMultiClient, run on an asyncio event loop.                *)
(*                                                                         *)
(* Time is a discrete clock `now`.  A transport send is a task that may    *)
(* complete at any instant with any outcome, or never (ISender is an       *)
(* abstract collaborator).  Timers (the wait_for timeouts, the backoff     *)
(* sleep) fire exactly when they are due; a timer that is due at the same  *)
(* instant as a completion fires first, because the client registers its   *)
(* timer before the transport task gets to run.  On Python 3.12 (the code  *)
(* needs typing.override) asyncio.wait_for awaits the coroutine inside the *)
(* calling task, so request() runs without suspension from its checks into *)
(* _make_request, up to the first await of a sleep or of a transport task. *)
(***************************************************************************)
EXTENDS Integers, Sequences, FiniteSets, TLC

\* ---------------------------------------------------------------- bounds
MaxAttempts == 3        \* max_retries ranges over 0..MaxAttempts
MaxBudget == 3          \* latency_budget ranges over 0..MaxBudget
MaxSenders == 2         \* a multi client has 1..MaxSenders senders
MaxDelay == 2           \* initial_delay, hedging_delay, recovery_timeout
MaxFactor == 2          \* backoff_factor ranges over 0..MaxFactor
MaxWindow == 2          \* window_size ranges over 1..MaxWindow
MaxTime == 4            \* between two calls the clock runs on up to MaxTime
MaxRecords == 4         \* record operations on a managed sender taken alone

\* ------------------------------------------------------------- constants
Outcomes == {"OK", "BAD_REQUEST", "INTERNAL_SERVER_ERROR"}

Classes ==
    {"Client", "BackoffClient", "MultiClient", "HedgingMultiClient",
     "CircuitBreakerMultiClient"}

MultiClasses == {"MultiClient", "HedgingMultiClient", "CircuitBreakerMultiClient"}

ExhaustedReason ==
    {"MAX_RETRIES_EXCEEDED", "LATENCY_BUDGET_EXHAUSTED", "NON_RETRYABLE_ERROR",
     "CIRCUIT_BREAKER_OPEN"}

\* datetime.min, the initial _recover_at of a ManagedSender: before every
\* instant of the clock, and further in the past than any later _recover_at
DatetimeMin == -1000

\* failure_threshold is a float in [0, 1]: kept as the exact fraction num/den
Thresholds == {[num |-> 0, den |-> 1], [num |-> 1, den |-> 2], [num |-> 1, den |-> 1]}

\* BAD_REQUEST is the non-retryable code, INTERNAL_SERVER_ERROR a retryable one
FastErrorSets == {{"BAD_REQUEST"}}

\* the calls of request() on one client
Reqs == {1, 2}

VARIABLES
    klass,            \* the class the client was constructed as
    strategy,         \* ResilienceStrategy
    n_senders,        \* len(senders); the senders are 1..n_senders
    n_requests,       \* how many calls of request() the client gets
    now,              \* time.monotonic() / datetime.now()
    current_attempt,  \* Client._current_attempt
    time_spent,       \* Client._time_spent
    sender,           \* Client._sender
    senders_cycle,    \* MultiClient._senders_cycle: the sender next() yields
    managed_senders,  \* CircuitBreakerMultiClient._managed_senders
    req,              \* each request() call: where it is, and how it ended
    tasks,            \* every transport task created by sender.send
    waits,            \* every BackoffClient._wait call, in order
    records           \* every record_success / record_failure call, in order

vars ==
    <<klass, strategy, n_senders, n_requests, now, current_attempt, time_spent,
      sender, senders_cycle, managed_senders, req, tasks, waits, records>>

Senders == 1..n_senders

\* ----------------------------------------------------------- strategies
ExtraStrategies(c) ==
    CASE c = "BackoffClient" ->
           [kind : {"Backoff"}, initial_delay : 0..MaxDelay,
            backoff_factor : 0..MaxFactor]
      [] c = "HedgingMultiClient" ->
           [kind : {"Hedging"}, hedging_delay : 0..MaxDelay]
      [] c = "CircuitBreakerMultiClient" ->
           [kind : {"CircuitBreaker"}, window_size : 1..MaxWindow,
            failure_threshold : Thresholds, recovery_timeout : 1..MaxDelay]
      [] OTHER -> {[kind |-> "None"]}

ResilienceStrategy(c) ==
    [max_retries : 0..MaxAttempts, latency_budget : 0..MaxBudget,
     fast_errors : FastErrorSets, extra_strategy : ExtraStrategies(c)]

\* factor ** n as Python computes it: 0 ** 0 = 1
RECURSIVE Pow(_, _)
Pow(b, e) == IF e <= 0 THEN 1 ELSE b * Pow(b, e - 1)

\* ------------------------------------------------------- ManagedSender
ManagedSender == [last_results |-> <<>>, recover_at |-> DatetimeMin]

\* a bounded deque that drops the new element when it is full
DequeAppendNoEvict(q, x, maxlen) ==
    IF Len(q) >= maxlen THEN q ELSE Append(q, x)

\* deque(maxlen=window_size).append
DequeAppend(q, x, maxlen) ==
    IF Len(q) >= maxlen THEN Append(Tail(q), x) ELSE Append(q, x)

Failures(q) == Cardinality({i \in 1..Len(q) : ~q[i]})

\* failure_rate as the fraction <<failures, len>>; 0.0 for an empty deque
failure_rate(m) ==
    IF Len(m.last_results) = 0 THEN <<0, 1>>
    ELSE <<Failures(m.last_results), Len(m.last_results)>>

RateLess(a, b) == a[1] * b[2] < b[1] * a[2]
RateEq(a, b) == a[1] * b[2] = b[1] * a[2]
RateAtLeast(a, t) == a[1] * t.den >= t.num * a[2]

record_success(m) ==
    [m EXCEPT !.last_results =
        DequeAppend(m.last_results, TRUE, strategy.extra_strategy.window_size)]

\* record_failure that opens the circuit only above the threshold
record_failure_above(m) ==
    LET appended ==
          [m EXCEPT !.last_results =
              DequeAppend(m.last_results, FALSE, strategy.extra_strategy.window_size)]
        rate == failure_rate(appended)
        t == strategy.extra_strategy.failure_threshold
    IN  IF rate[1] * t.den > t.num * rate[2]
        THEN [appended EXCEPT !.recover_at = now + strategy.extra_strategy.recovery_timeout]
        ELSE appended

record_failure(m) ==
    LET appended ==
          [m EXCEPT !.last_results =
              DequeAppend(m.last_results, FALSE, strategy.extra_strategy.window_size)]
    IN  IF RateAtLeast(failure_rate(appended), strategy.extra_strategy.failure_threshold)
        THEN [appended EXCEPT !.recover_at = now + strategy.extra_strategy.recovery_timeout]
        ELSE appended

recovery_time(m) == m.recover_at - now

is_circuit_open(m) == now < m.recover_at

\* ------------------------------------------------------------ the world
\* What one step of a request() call reads and writes: the client's fields,
\* the transport tasks, the recorded waits, and the call's own frame r.
World(p) ==
    [current_attempt |-> current_attempt, time_spent |-> time_spent,
     sender |-> sender, senders_cycle |-> senders_cycle,
     managed_senders |-> managed_senders, tasks |-> tasks, waits |-> waits,
     records |-> records, r |-> req[p]]

\* The frame of a call: pc is where it is suspended; remaining_budget and
\* start_time are the locals of Client.request, deadline the instant its
\* wait_for times out, timer the instant the backoff sleep or the hedging
\* wait_for ends, rec the managed sender the circuit breaker records on.
\* For the properties it also keeps: began (the instant of the call), att
\* (the attempts it has started), results (the outcome of each attempt it
\* classified), and how and when it ended (result or reason, ended).
IdleFrame ==
    [pc |-> "idle", began |-> 0, remaining_budget |-> 0, deadline |-> 0,
     start_time |-> 0, timer |-> 0, rec |-> 0, att |-> 0, results |-> <<>>,
     result |-> "none", reason |-> "none", ended |-> 0]

\* raise ResilienceStrategyExhausted(reason)
Raise(w, reason) ==
    [w EXCEPT !.r.pc = "done", !.r.reason = reason, !.r.ended = now]

Return(w, result) ==
    [w EXCEPT !.r.pc = "done", !.r.result = result, !.r.ended = now]

\* ------------------------------------------------------- _select_sender
\* The sort key of CircuitBreakerMultiClient._select_sender, compared as
\* sorted() compares tuples.
KeyLess(a, b) ==
    LET oa == ~is_circuit_open(a)
        ob == ~is_circuit_open(b)
    IN  \/ ~oa /\ ob
        \/ oa = ob /\ RateLess(failure_rate(b), failure_rate(a))
        \/ oa = ob /\ RateEq(failure_rate(a), failure_rate(b))
                   /\ recovery_time(a) < recovery_time(b)

\* sorted(...)[-1]: a sender no other sender's key exceeds.  Each key reads
\* datetime.now() on its own, so senders whose keys agree to the instant are
\* ordered by clock readings a few microseconds apart: any of them may come
\* last.
BestSenders(ms) ==
    {i \in Senders : \A j \in Senders : ~KeyLess(ms[i], ms[j])}

\* _select_sender that reads the cycle without advancing it
SelectSenderNoAdvance(w) ==
    CASE klass \in {"MultiClient", "HedgingMultiClient"} ->
           {[w EXCEPT !.sender = w.senders_cycle]}
      [] klass = "CircuitBreakerMultiClient" ->
           {[w EXCEPT !.sender = i] : i \in BestSenders(w.managed_senders)}
      [] OTHER -> {w}

SelectSender(w) ==
    CASE klass \in {"MultiClient", "HedgingMultiClient"} ->
           {[w EXCEPT !.sender = w.senders_cycle,
                      !.senders_cycle = (w.senders_cycle % n_senders) + 1]}
      [] klass = "CircuitBreakerMultiClient" ->
           {[w EXCEPT !.sender = i] : i \in BestSenders(w.managed_senders)}
      [] OTHER -> {w}

\* ------------------------------------------------------------- sender.send
\* The task of one transport call.  For the properties it keeps the call and
\* the attempt it belongs to, whether it went to the sender _select_sender
\* chose, and _current_attempt and _time_spent at the moment of the call.
NewTask(p, w, primary) ==
    [req |-> p, att |-> w.r.att, sender |-> w.sender, start |-> now, end |-> -1,
     state |-> "pending", outcome |-> "none", primary |-> primary,
     attempts_used |-> w.current_attempt, elapsed |-> w.time_spent]

Send(w, p, primary) == [w EXCEPT !.tasks = Append(@, NewTask(p, w, primary))]

\* -------------------------------------------------------- _make_request
\* Client._make_request: select, send, await the task
ClientMakeRequest(w, p) ==
    {[Send(w2, p, TRUE) EXCEPT !.r.pc = "sending"] : w2 \in SelectSender(w)}

BackoffDelay(w) ==
    strategy.extra_strategy.initial_delay
        * Pow(strategy.extra_strategy.backoff_factor, w.current_attempt - 1)

\* BackoffClient._make_request up to its first await
BackoffMakeRequest(w, p) ==
    IF w.current_attempt > 0
    THEN {[w EXCEPT !.waits = Append(@, [req |-> p, att |-> w.r.att, at |-> now,
                                          remaining |-> w.r.remaining_budget,
                                          delay |-> BackoffDelay(w)]),
                    !.r.pc = "backoff",
                    !.r.timer = now + BackoffDelay(w)]}
    ELSE ClientMakeRequest(w, p)

\* HedgingMultiClient._make_request that does not wait hedging_delay
HedgingMakeRequestEager(w, p) ==
    {[Send(w2, p, TRUE) EXCEPT !.r.pc = "hedge_wait", !.r.timer = now]
       : w2 \in SelectSender(w)}

\* HedgingMultiClient._make_request up to wait_for(shield(main_task))
HedgingMakeRequest(w, p) ==
    {[Send(w2, p, TRUE) EXCEPT
         !.r.pc = "hedge_wait",
         !.r.timer = now + strategy.extra_strategy.hedging_delay]
       : w2 \in SelectSender(w)}

\* CircuitBreakerMultiClient._make_request without the test of the circuit
CircuitBreakerMakeRequestUnchecked(w, p) ==
    UNION {
        {[w3 EXCEPT !.r.rec = w2.sender] : w3 \in ClientMakeRequest(w2, p)}
      : w2 \in SelectSender(w)}

\* CircuitBreakerMultiClient._make_request up to the await of the send
CircuitBreakerMakeRequest(w, p) ==
    UNION {
        IF is_circuit_open(w2.managed_senders[w2.sender])
        THEN {Raise(w2, "CIRCUIT_BREAKER_OPEN")}
        ELSE {[w3 EXCEPT !.r.rec = w2.sender] : w3 \in ClientMakeRequest(w2, p)}
      : w2 \in SelectSender(w)}

MakeRequest(w, p) ==
    CASE klass = "BackoffClient" -> BackoffMakeRequest(w, p)
      [] klass = "HedgingMultiClient" -> HedgingMakeRequest(w, p)
      [] klass = "CircuitBreakerMultiClient" -> CircuitBreakerMakeRequest(w, p)
      [] OTHER -> ClientMakeRequest(w, p)

\* --------------------------------------------------------------- request
\* Request with the attempt check off by one (> for >=)
RequestOffByOne(w, p) ==
    IF w.current_attempt > strategy.max_retries
    THEN {Raise(w, "MAX_RETRIES_EXCEEDED")}
    ELSE IF strategy.latency_budget - w.time_spent <= 0
    THEN {Raise(w, "LATENCY_BUDGET_EXHAUSTED")}
    ELSE MakeRequest(
           [w EXCEPT !.r.remaining_budget = strategy.latency_budget - w.time_spent,
                     !.r.start_time = now,
                     !.r.deadline = now + (strategy.latency_budget - w.time_spent),
                     !.r.att = @ + 1], p)

\* Request with the budget check before the attempt check
RequestBudgetFirst(w, p) ==
    IF strategy.latency_budget - w.time_spent <= 0
    THEN {Raise(w, "LATENCY_BUDGET_EXHAUSTED")}
    ELSE IF w.current_attempt >= strategy.max_retries
    THEN {Raise(w, "MAX_RETRIES_EXCEEDED")}
    ELSE MakeRequest(
           [w EXCEPT !.r.remaining_budget = strategy.latency_budget - w.time_spent,
                     !.r.start_time = now,
                     !.r.deadline = now + (strategy.latency_budget - w.time_spent),
                     !.r.att = @ + 1], p)

\* Client.request from its entry to the await of wait_for
Request(w, p) ==
    IF w.current_attempt >= strategy.max_retries
    THEN {Raise(w, "MAX_RETRIES_EXCEEDED")}
    ELSE IF strategy.latency_budget - w.time_spent <= 0
    THEN {Raise(w, "LATENCY_BUDGET_EXHAUSTED")}
    ELSE MakeRequest(
           [w EXCEPT !.r.remaining_budget = strategy.latency_budget - w.time_spent,
                     !.r.start_time = now,
                     !.r.deadline = now + (strategy.latency_budget - w.time_spent),
                     !.r.att = @ + 1], p)

\* Classify returning whatever is not a fast error to the caller
ClassifyReturnsAnyResult(w, p, result) ==
    LET seen == [w EXCEPT !.r.results = Append(@, result)]
    IN  IF result \in strategy.fast_errors
        THEN {Raise(seen, "NON_RETRYABLE_ERROR")}
        ELSE {Return(seen, result)}

\* Classify without the fast_errors test
ClassifyRetriesFastErrors(w, p, result) ==
    LET seen == [w EXCEPT !.r.results = Append(@, result)]
    IN  IF result = "OK"
        THEN {Return(seen, result)}
        ELSE Request([seen EXCEPT !.time_spent = @ + (now - w.r.start_time),
                                  !.current_attempt = @ + 1], p)

\* Classify charging only the time since the backoff wait ended
ClassifyChargesSendOnly(w, p, result) ==
    LET seen == [w EXCEPT !.r.results = Append(@, result)]
        waited == IF w.r.pc = "sending" /\ klass = "BackoffClient" /\ w.waits # <<>>
                     /\ w.waits[Len(w.waits)].att = w.r.att
                  THEN w.waits[Len(w.waits)].delay ELSE 0
    IN  IF result \in strategy.fast_errors
        THEN {Raise(seen, "NON_RETRYABLE_ERROR")}
        ELSE IF result = "OK"
        THEN {Return(seen, result)}
        ELSE Request([seen EXCEPT !.time_spent = @ + (now - w.r.start_time) - waited,
                                  !.current_attempt = @ + 1], p)

\* Classify counting every transport call of the attempt as an attempt
ClassifyCountsSends(w, p, result) ==
    LET seen == [w EXCEPT !.r.results = Append(@, result)]
        sends == Cardinality({i \in 1..Len(w.tasks) :
                    w.tasks[i].req = p /\ w.tasks[i].att = w.r.att})
    IN  IF result \in strategy.fast_errors
        THEN {Raise(seen, "NON_RETRYABLE_ERROR")}
        ELSE IF result = "OK"
        THEN {Return(seen, result)}
        ELSE Request([seen EXCEPT !.time_spent = @ + (now - w.r.start_time),
                                  !.current_attempt = @ + sends], p)

\* Client.request from the result of wait_for on: classify, account, recurse
Classify(w, p, result) ==
    LET seen == [w EXCEPT !.r.results = Append(@, result)]
    IN  IF result \in strategy.fast_errors
        THEN {Raise(seen, "NON_RETRYABLE_ERROR")}
        ELSE IF result = "OK"
        THEN {Return(seen, result)}
        ELSE Request([seen EXCEPT !.time_spent = @ + (now - w.r.start_time),
                                  !.current_attempt = @ + 1], p)

\* the rest of CircuitBreakerMultiClient._make_request, after the await
RecordResult(w, result) ==
    IF klass # "CircuitBreakerMultiClient" THEN w
    ELSE [w EXCEPT !.managed_senders[w.r.rec] =
             IF result = "OK" THEN record_success(@) ELSE record_failure(@),
                   !.records = Append(@, [sender |-> w.r.rec, ok |-> result = "OK"])]

\* ---------------------------------------------------------------- state
\* A client that gets one call: every strategy within the bounds.
InitFresh ==
    /\ klass \in Classes
    /\ strategy \in ResilienceStrategy(klass)
    /\ n_senders \in (IF klass \in MultiClasses THEN 1..MaxSenders ELSE {1})
    /\ n_requests = 1

\* A client that gets two calls, one after the other or overlapping: one
\* strategy for each class and each max_retries, and for the circuit breaker
\* each of the thresholds 1/2 and 1.
ReusedExtraStrategy(c) ==
    CASE c = "BackoffClient" ->
           [kind |-> "Backoff", initial_delay |-> 1, backoff_factor |-> 2]
      [] c = "HedgingMultiClient" -> [kind |-> "Hedging", hedging_delay |-> 1]
      [] c = "CircuitBreakerMultiClient" ->
           [kind |-> "CircuitBreaker", window_size |-> 2,
            failure_threshold |-> [num |-> 1, den |-> 2], recovery_timeout |-> 1]
      [] OTHER -> [kind |-> "None"]

InitReused ==
    /\ klass \in Classes
    /\ strategy \in [max_retries : 1..2, latency_budget : {2},
                      fast_errors : FastErrorSets,
                      extra_strategy :
                        {ReusedExtraStrategy(klass)} \cup
                        (IF klass = "CircuitBreakerMultiClient"
                         THEN {[ReusedExtraStrategy(klass) EXCEPT
                                  !.failure_threshold = [num |-> 1, den |-> 1]]}
                         ELSE {})]
    /\ n_senders = (IF klass \in MultiClasses THEN 2 ELSE 1)
    /\ n_requests = 2

Init ==
    /\ InitFresh \/ InitReused
    /\ now = 0
    /\ current_attempt = 0
    /\ time_spent = 0
    /\ sender = 1
    /\ senders_cycle = 1
    /\ managed_senders =
         IF klass = "CircuitBreakerMultiClient"
         THEN [i \in 1..n_senders |-> ManagedSender]
         ELSE <<>>
    /\ req = [p \in Reqs |-> IdleFrame]
    /\ tasks = <<>>
    /\ waits = <<>>
    /\ records = <<>>

Active(p) == req[p].pc \notin {"idle", "done"}

\* the transport tasks of the attempt that p is in
AttemptTasks(p) ==
    {i \in 1..Len(tasks) : tasks[i].req = p /\ tasks[i].att = req[p].att}

PendingTasks(p) == {i \in AttemptTasks(p) : tasks[i].state = "pending"}

Apply(p, w) ==
    /\ current_attempt' = w.current_attempt
    /\ time_spent' = w.time_spent
    /\ sender' = w.sender
    /\ senders_cycle' = w.senders_cycle
    /\ managed_senders' = w.managed_senders
    /\ tasks' = w.tasks
    /\ waits' = w.waits
    /\ records' = w.records
    /\ req' = [req EXCEPT ![p] = w.r]
    /\ UNCHANGED <<klass, strategy, n_senders, n_requests, now>>

\* a task.cancel() that has no effect
NotCancelled(ts, i) == ts

\* a transport task ends: it completed with an outcome, or it was cancelled
Completed(ts, i, outcome) ==
    [ts EXCEPT ![i].state = "done", ![i].end = now, ![i].outcome = outcome]

Cancelled(ts, i) == [ts EXCEPT ![i].state = "cancelled", ![i].end = now]

\* -------------------------------------------------------------- actions
\* a caller calls request(payload)
StartRequest(p) ==
    /\ req[p].pc = "idle"
    /\ \A q \in Reqs : q < p => req[q].pc # "idle"
    /\ p <= n_requests
    /\ \E w \in Request([World(p) EXCEPT !.r.began = now], p) : Apply(p, w)

\* SendCompleted with a completion at the deadline still accepted
SendCompletedAtDeadline(p) ==
    /\ req[p].pc = "sending"
    /\ now <= req[p].deadline
    /\ \E i \in PendingTasks(p), outcome \in Outcomes :
         LET w1 == [World(p) EXCEPT !.tasks = Completed(@, i, outcome)]
         IN  \E w \in Classify(RecordResult(w1, outcome), p, outcome) : Apply(p, w)

\* the awaited transport task completes before the budget runs out
SendCompleted(p) ==
    /\ req[p].pc = "sending"
    /\ now < req[p].deadline
    /\ \E i \in PendingTasks(p), outcome \in Outcomes :
         LET w1 == [World(p) EXCEPT !.tasks = Completed(@, i, outcome)]
         IN  \E w \in Classify(RecordResult(w1, outcome), p, outcome) : Apply(p, w)

\* asyncio.sleep(delay) of BackoffClient._wait returns
BackoffElapsed(p) ==
    /\ req[p].pc = "backoff"
    /\ now = req[p].timer
    /\ now < req[p].deadline
    /\ \E w \in ClientMakeRequest(World(p), p) : Apply(p, w)

\* the main task completes within hedging_delay
HedgeMainCompleted(p) ==
    /\ req[p].pc = "hedge_wait"
    /\ now < req[p].timer
    /\ now < req[p].deadline
    /\ \E i \in PendingTasks(p), outcome \in Outcomes :
         LET w1 == [World(p) EXCEPT !.tasks = Completed(@, i, outcome)]
         IN  \E w \in Classify(w1, p, outcome) : Apply(p, w)

\* a fan-out that sends to the main sender again as well
RECURSIVE SendToAll(_, _, _, _)
SendToAll(w, p, main_sender, i) ==
    IF i > n_senders THEN w
    ELSE SendToAll(Send([w EXCEPT !.sender = i], p, FALSE), p, main_sender, i + 1)

\* other_senders of HedgingMultiClient._make_request, in the order of _senders
RECURSIVE SendToOthers(_, _, _, _)
SendToOthers(w, p, main_sender, i) ==
    IF i > n_senders THEN w
    ELSE IF i = main_sender THEN SendToOthers(w, p, main_sender, i + 1)
    ELSE SendToOthers(Send([w EXCEPT !.sender = i], p, FALSE), p, main_sender, i + 1)

\* wait_for(shield(main_task)) times out: send to every other sender
HedgeDelayElapsed(p) ==
    /\ req[p].pc = "hedge_wait"
    /\ now = req[p].timer
    /\ now < req[p].deadline
    /\ LET w == World(p)
           main_task == CHOOSE i \in AttemptTasks(p) : tasks[i].primary
           fanned == SendToOthers(w, p, tasks[main_task].sender, 1)
       IN  Apply(p, [fanned EXCEPT !.sender = w.sender, !.r.pc = "hedged"])

\* asyncio.wait(tasks, FIRST_COMPLETED) returns: the tasks of `done` completed
\* in this instant, the others are cancelled, and the result is that of the
\* task the iteration over the set `done` yields first
HedgeFirstCompleted(p) ==
    /\ req[p].pc = "hedged"
    /\ now < req[p].deadline
    /\ \E done \in (SUBSET PendingTasks(p)) \ {{}} :
         \E first \in done, outcome \in Outcomes :
           LET ended == [i \in 1..Len(tasks) |->
                           IF i = first THEN Completed(tasks, i, outcome)[i]
                           ELSE IF i \in done THEN Completed(tasks, i, "unread")[i]
                           ELSE IF i \in PendingTasks(p) THEN Cancelled(tasks, i)[i]
                           ELSE tasks[i]]
               w1 == [World(p) EXCEPT !.tasks = ended]
           IN  \E w \in Classify(w1, p, outcome) : Apply(p, w)

\* a timeout that cancels nothing
CancelsNothing(p) == {}

\* what the timeout of wait_for in Client.request cancels: the task request()
\* awaits directly.  The shield around the main task and asyncio.wait leave
\* their tasks running.
CancelledByTimeout(p) ==
    IF req[p].pc = "sending" THEN PendingTasks(p) ELSE {}

\* a wait_for whose timeout never fires
BudgetTimeoutNever(p) == FALSE

\* a timeout that records the cut-off send as a failure
BudgetTimeoutRecordsFailure(p) ==
    /\ req[p].pc \in {"sending", "backoff", "hedge_wait", "hedged"}
    /\ now = req[p].deadline
    /\ LET w == World(p)
           ended == [i \in 1..Len(tasks) |->
                       IF i \in CancelledByTimeout(p) THEN Cancelled(tasks, i)[i]
                       ELSE tasks[i]]
       IN  Apply(p, Raise(RecordResult([w EXCEPT !.tasks = ended],
                                       "INTERNAL_SERVER_ERROR"),
                          "LATENCY_BUDGET_EXHAUSTED"))

\* the latency budget runs out during the attempt
BudgetTimeout(p) ==
    /\ req[p].pc \in {"sending", "backoff", "hedge_wait", "hedged"}
    /\ now = req[p].deadline
    /\ LET w == World(p)
           ended == [i \in 1..Len(tasks) |->
                       IF i \in CancelledByTimeout(p) THEN Cancelled(tasks, i)[i]
                       ELSE tasks[i]]
       IN  Apply(p, Raise([w EXCEPT !.tasks = ended], "LATENCY_BUDGET_EXHAUSTED"))

\* a transport task that outlived its call completes; nothing reads its outcome
OrphanCompleted ==
    /\ \E i \in 1..Len(tasks) :
         /\ tasks[i].state = "pending"
         /\ req[tasks[i].req].pc = "done"
         /\ tasks' = Completed(tasks, i, "unread")
    /\ UNCHANGED <<klass, strategy, n_senders, n_requests, now, current_attempt,
                   time_spent, sender, senders_cycle, managed_senders, req, waits,
                   records>>

\* a timer of p is due now
TimerDue(p) ==
    \/ Active(p) /\ req[p].deadline = now
    \/ req[p].pc \in {"backoff", "hedge_wait"} /\ req[p].timer = now

Tick ==
    /\ \A p \in Reqs : ~TimerDue(p)
    /\ \/ \E p \in Reqs : Active(p)
       \/ now < MaxTime /\ req[1].pc = "done" /\ n_requests > 1 /\ req[2].pc = "idle"
    /\ now' = now + 1
    /\ UNCHANGED <<klass, strategy, n_senders, n_requests, current_attempt,
                   time_spent, sender, senders_cycle, managed_senders, req,
                   tasks, waits, records>>

Next ==
    \/ \E p \in Reqs : StartRequest(p)
    \/ \E p \in Reqs : SendCompleted(p)
    \/ \E p \in Reqs : BackoffElapsed(p)
    \/ \E p \in Reqs : HedgeMainCompleted(p)
    \/ \E p \in Reqs : HedgeDelayElapsed(p)
    \/ \E p \in Reqs : HedgeFirstCompleted(p)
    \/ \E p \in Reqs : BudgetTimeout(p)
    \/ OrphanCompleted
    \/ Tick

Spec == Init /\ [][Next]_vars

\* Timers fire: the event loop runs every timer callback that is due, so the
\* clock goes on, and the timeout of wait_for, the end of the backoff sleep
\* and the end of the hedging wait happen when they are due.  Nothing is
\* assumed of the transports (a send may never complete) or of the callers.
TimersFire ==
    /\ WF_vars(Tick)
    /\ \A p \in Reqs :
         /\ WF_vars(BudgetTimeout(p))
         /\ WF_vars(BackoffElapsed(p))
         /\ WF_vars(HedgeDelayElapsed(p))

SpecLive == Spec /\ TimersFire

\* ------------------------------------------------- a managed sender alone
\* One ManagedSender of every circuit breaker strategy, taking any sequence
\* of up to MaxRecords record_success and record_failure calls at any
\* instants.
InitHealth ==
    /\ klass = "CircuitBreakerMultiClient"
    /\ strategy \in [max_retries : {1}, latency_budget : {1},
                      fast_errors : FastErrorSets,
                      extra_strategy : ExtraStrategies(klass)]
    /\ n_senders = 1
    /\ n_requests = 0
    /\ now = 0
    /\ current_attempt = 0
    /\ time_spent = 0
    /\ sender = 1
    /\ senders_cycle = 1
    /\ managed_senders = [i \in 1..n_senders |-> ManagedSender]
    /\ req = [p \in Reqs |-> IdleFrame]
    /\ tasks = <<>>
    /\ waits = <<>>
    /\ records = <<>>

RecordSuccess(s) ==
    /\ Len(records) < MaxRecords
    /\ managed_senders' = [managed_senders EXCEPT ![s] = record_success(@)]
    /\ records' = Append(records, [sender |-> s, ok |-> TRUE])
    /\ UNCHANGED <<klass, strategy, n_senders, n_requests, now, current_attempt,
                   time_spent, sender, senders_cycle, req, tasks, waits>>

RecordFailure(s) ==
    /\ Len(records) < MaxRecords
    /\ managed_senders' = [managed_senders EXCEPT ![s] = record_failure(@)]
    /\ records' = Append(records, [sender |-> s, ok |-> FALSE])
    /\ UNCHANGED <<klass, strategy, n_senders, n_requests, now, current_attempt,
                   time_spent, sender, senders_cycle, req, tasks, waits>>

HealthTick ==
    /\ now < MaxTime
    /\ now' = now + 1
    /\ UNCHANGED <<klass, strategy, n_senders, n_requests, current_attempt,
                   time_spent, sender, senders_cycle, managed_senders, req,
                   tasks, waits, records>>

NextHealth ==
    \/ \E s \in Senders : RecordSuccess(s)
    \/ \E s \in Senders : RecordFailure(s)
    \/ HealthTick

SpecHealth == InitHealth /\ [][NextHealth]_vars

\* ------------------------------------------------------------ properties
Done(p) == req[p].pc = "done"

\* p is the only call the client has had so far: a fresh client's call
FreshRun(p) == p = 1 /\ req[2].pc = "idle"

TasksOf(p) == {i \in 1..Len(tasks) : tasks[i].req = p}

\* the transport calls p has made
Calls(p) == Cardinality(TasksOf(p))

Retryable(outcome) == outcome # "OK" /\ outcome \notin strategy.fast_errors

\* every outcome p got from a transport was a retryable failure
AllFailedRetryable(p) ==
    \A i \in TasksOf(p) : tasks[i].state = "done" => Retryable(tasks[i].outcome)

\* C1: a call that has ended either returned OK or raised the exhaustion
\* error with one of the four reasons, never both; it returned OK only if a
\* send of its last attempt completed with OK, and it never returned
\* anything else.
C1_ReturnsOkOrRaisesOneReason ==
    \A p \in Reqs : Done(p) =>
        \/ /\ req[p].result = "OK"
           /\ req[p].reason = "none"
           /\ req[p].results # <<>>
           /\ req[p].results[Len(req[p].results)] = "OK"
           /\ \E i \in AttemptTasks(p) :
                tasks[i].state = "done" /\ tasks[i].outcome = "OK"
        \/ /\ req[p].result = "none"
           /\ req[p].reason \in ExhaustedReason

C1_Witness ==
    \E p \in Reqs :
        Done(p) /\ req[p].result = "OK" /\ req[p].att >= 2
                /\ klass = "CircuitBreakerMultiClient"

\* C2: on a fresh plain, round-robin or backoff client, a call whose every
\* transport outcome was a retryable failure and that did not end on the
\* latency budget raised MAX_RETRIES_EXCEEDED after exactly max_retries
\* transport calls.
C2_AllFailingMakesMaxRetriesCalls ==
    \A p \in Reqs :
        ( /\ Done(p)
          /\ FreshRun(p)
          /\ klass \in {"Client", "MultiClient", "BackoffClient"}
          /\ AllFailedRetryable(p)
          /\ req[p].reason # "LATENCY_BUDGET_EXHAUSTED" )
        => /\ req[p].reason = "MAX_RETRIES_EXCEEDED"
           /\ Calls(p) = strategy.max_retries

C2_Witness ==
    /\ Done(1) /\ FreshRun(1)
    /\ klass = "MultiClient" /\ n_senders = 2
    /\ req[1].reason = "MAX_RETRIES_EXCEEDED"
    /\ Calls(1) = 3

\* C3 as claimed: on a fresh non-hedged client whose transports all fail
\* retryably, a call that ends with LATENCY_BUDGET_EXHAUSTED has made strictly
\* fewer than max_retries transport calls.
C3_Claimed_StrictlyFewerCalls ==
    \A p \in Reqs :
        ( /\ Done(p)
          /\ FreshRun(p)
          /\ klass # "HedgingMultiClient"
          /\ strategy.max_retries >= 1
          /\ AllFailedRetryable(p)
          /\ req[p].reason = "LATENCY_BUDGET_EXHAUSTED" )
        => Calls(p) < strategy.max_retries

\* C3 amended: such a call has made at most max_retries transport calls, and
\* exactly max_retries only when the budget ran out during the send of the
\* last permitted attempt, which the timeout cancelled.
C3_AtMostMaxRetriesCalls ==
    \A p \in Reqs :
        ( /\ Done(p)
          /\ FreshRun(p)
          /\ klass # "HedgingMultiClient"
          /\ strategy.max_retries >= 1
          /\ AllFailedRetryable(p)
          /\ req[p].reason = "LATENCY_BUDGET_EXHAUSTED" )
        => /\ Calls(p) <= strategy.max_retries
           /\ Calls(p) = strategy.max_retries =>
                \E i \in AttemptTasks(p) : tasks[i].state = "cancelled"

C3_Witness ==
    /\ Done(1) /\ FreshRun(1)
    /\ klass = "Client"
    /\ req[1].reason = "LATENCY_BUDGET_EXHAUSTED"
    /\ strategy.max_retries = 2
    /\ Calls(1) = 2
    /\ tasks[1].state = "done" /\ tasks[2].state = "cancelled"

\* C4: an outcome in fast_errors ends the call at once with
\* NON_RETRYABLE_ERROR: the call that read it is done with that reason, the
\* attempt that produced it is the call's last one, and a call that raised
\* NON_RETRYABLE_ERROR read an outcome in fast_errors last.
C4_FastErrorStopsTheCall ==
    /\ \A i \in 1..Len(tasks) :
         tasks[i].outcome \in strategy.fast_errors =>
            LET p == tasks[i].req
            IN  /\ Done(p)
                /\ req[p].reason = "NON_RETRYABLE_ERROR"
                /\ req[p].att = tasks[i].att
                /\ \A j \in TasksOf(p) : tasks[j].att <= tasks[i].att
                /\ \A k \in 1..Len(waits) :
                     waits[k].req = p => waits[k].att <= tasks[i].att
    /\ \A p \in Reqs :
         (Done(p) /\ req[p].reason = "NON_RETRYABLE_ERROR") =>
            /\ req[p].results # <<>>
            /\ req[p].results[Len(req[p].results)] \in strategy.fast_errors

C4_Witness ==
    \E p \in Reqs :
        /\ Done(p) /\ req[p].reason = "NON_RETRYABLE_ERROR"
        /\ req[p].att = 2
        /\ current_attempt + 1 < strategy.max_retries
        /\ now < req[p].deadline

\* C5: a call never runs past the instant its remaining budget ends
\* (the start of the attempt plus latency_budget minus the time spent before
\* it), and a call that is still in its attempt at that instant -- sending,
\* in its backoff wait, or in its hedging wait -- leaves it by raising
\* LATENCY_BUDGET_EXHAUSTED without another transport call.
C5_BudgetEndsTheAttempt ==
    /\ [](\A p \in Reqs : Active(p) =>
            /\ now <= req[p].deadline
            /\ req[p].deadline = req[p].start_time + req[p].remaining_budget
            /\ FreshRun(p) =>
                 req[p].remaining_budget = strategy.latency_budget - time_spent)
    /\ [][\A p \in Reqs :
            (Active(p) /\ now = req[p].deadline /\ req'[p] # req[p]) =>
               /\ req'[p].pc = "done"
               /\ req'[p].reason = "LATENCY_BUDGET_EXHAUSTED"
               /\ req'[p].att = req[p].att
               /\ Len(tasks') = Len(tasks)]_vars

C5_Witness ==
    \E p \in Reqs :
        /\ Done(p) /\ req[p].reason = "LATENCY_BUDGET_EXHAUSTED"
        /\ req[p].att = 2
        /\ now = req[p].deadline
        /\ \E i \in AttemptTasks(p) : tasks[i].state = "cancelled"

\* C6 as claimed: _current_attempt never exceeds max_retries; every
\* transport call is made with _current_attempt < max_retries and
\* _time_spent < latency_budget; and a call ends at most latency_budget plus
\* one unit of the clock after it began.
C6_Claimed_AttemptsAndBudgetBounded ==
    /\ current_attempt <= strategy.max_retries
    /\ \A i \in 1..Len(tasks) :
         /\ tasks[i].attempts_used < strategy.max_retries
         /\ tasks[i].elapsed < strategy.latency_budget
    /\ \A p \in Reqs :
         Done(p) => req[p].ended - req[p].began <= strategy.latency_budget + 1

\* C7: on a fresh client with N senders the k-th attempt (k = 0, 1, ...) of
\* the call goes to sender k mod N of the construction order (the main
\* sender, for a hedging client), so the first N attempts of a round-robin
\* client call each sender exactly once.
C7_RoundRobinFromTheFirstSender ==
    (klass # "CircuitBreakerMultiClient" /\ FreshRun(1)) =>
        /\ \A i \in TasksOf(1) :
             tasks[i].primary =>
                tasks[i].sender = ((tasks[i].att - 1) % n_senders) + 1
        /\ (klass = "MultiClient" /\ req[1].att >= n_senders) =>
             \A s \in Senders :
                Cardinality({i \in TasksOf(1) :
                    tasks[i].att <= n_senders /\ tasks[i].sender = s}) = 1

C7_Witness ==
    /\ FreshRun(1) /\ klass = "MultiClient" /\ n_senders = 2
    /\ Len(tasks) = 3
    /\ tasks[1].sender = 1 /\ tasks[2].sender = 2 /\ tasks[3].sender = 1

WaitsOf(p) == {k \in 1..Len(waits) : waits[k].req = p}

\* C8 as claimed: a backoff client waits before no first attempt of a call;
\* before the n-th attempt (n >= 2) it waits initial_delay *
\* backoff_factor^(n-2), and the send of that attempt starts when the wait
\* has ended.
C8_Claimed_BackoffWaits ==
    klass = "BackoffClient" =>
        /\ \A k \in 1..Len(waits) :
             /\ waits[k].att >= 2
             /\ waits[k].delay =
                  strategy.extra_strategy.initial_delay
                    * Pow(strategy.extra_strategy.backoff_factor, waits[k].att - 2)
        /\ \A i \in 1..Len(tasks) :
             tasks[i].att >= 2 =>
                \E k \in WaitsOf(tasks[i].req) :
                   /\ waits[k].att = tasks[i].att
                   /\ waits[k].at + waits[k].delay = tasks[i].start

\* C9: a backoff wait runs inside the attempt's budget.  It starts with the
\* attempt; the send that follows it starts when the wait ends, and only if
\* the wait was shorter than the budget remaining at the attempt's start; a
\* wait at least as long as that is cut off when the budget ends, the call
\* raises LATENCY_BUDGET_EXHAUSTED and the attempt has no send.  On a fresh
\* client the time spent recorded at the start of an attempt is all the time
\* since the call began, waits included.
C9_BackoffWaitChargedToBudget ==
    klass = "BackoffClient" =>
        /\ \A k \in 1..Len(waits) :
             LET p == waits[k].req
                 sends == {i \in TasksOf(p) : tasks[i].att = waits[k].att}
                 current == req[p].att = waits[k].att
             IN  /\ \A i \in sends :
                      /\ tasks[i].start = waits[k].at + waits[k].delay
                      /\ waits[k].delay < waits[k].remaining
                 /\ (current /\ req[p].pc = "backoff") =>
                      /\ now <= waits[k].at + waits[k].remaining
                      /\ now <= waits[k].at + waits[k].delay
                 /\ (current /\ Done(p) /\ sends = {}) =>
                      /\ req[p].reason = "LATENCY_BUDGET_EXHAUSTED"
                      /\ waits[k].delay >= waits[k].remaining
                      /\ req[p].ended = waits[k].at + waits[k].remaining
        /\ \A p \in Reqs :
             (FreshRun(p) /\ Active(p)) =>
                time_spent = req[p].start_time - req[p].began

C9_Witness ==
    /\ klass = "BackoffClient" /\ Done(1)
    /\ req[1].reason = "LATENCY_BUDGET_EXHAUSTED"
    /\ req[1].att = 3
    /\ Len(waits) = 2 /\ waits[2].att = 3 /\ waits[2].delay > waits[2].remaining
    /\ waits[1].delay = 1
    /\ Calls(1) = 2

\* C10: when the main task of a hedged attempt completes before
\* hedging_delay has passed, that attempt makes no other transport call, and
\* its outcome is the main task's outcome unless the budget had run out
\* before the completion and ended the attempt.
C10_NoHedgeWhenMainCompletesInTime ==
    klass = "HedgingMultiClient" =>
        \A i \in 1..Len(tasks) :
           ( /\ tasks[i].primary
             /\ tasks[i].state = "done"
             /\ tasks[i].end - tasks[i].start < strategy.extra_strategy.hedging_delay )
           => LET p == tasks[i].req
                  in_budget == tasks[i].end < tasks[i].start
                                 + (strategy.latency_budget - tasks[i].elapsed)
              IN  /\ \A j \in TasksOf(p) : tasks[j].att = tasks[i].att => j = i
                  /\ in_budget =>
                       /\ Len(req[p].results) >= tasks[i].att
                       /\ req[p].results[tasks[i].att] = tasks[i].outcome

C10_Witness ==
    /\ klass = "HedgingMultiClient" /\ n_senders = 2
    /\ Len(tasks) = 3
    /\ tasks[1].primary /\ ~tasks[2].primary /\ tasks[3].primary
    /\ tasks[3].state = "done" /\ tasks[3].outcome = "OK"
    /\ tasks[3].end - tasks[3].start < strategy.extra_strategy.hedging_delay
    /\ Done(1) /\ req[1].result = "OK"

\* the transport tasks of attempt a of call p
TasksOfAttempt(p, a) == {i \in TasksOf(p) : tasks[i].att = a}

\* the attempts a hedging client has fanned out: the ones with a send that
\* did not go to the sender _select_sender chose
FannedOut(p, a) ==
    klass = "HedgingMultiClient" /\ \E i \in TasksOfAttempt(p, a) : ~tasks[i].primary

\* the instant the budget of the attempt that made task i ends
DeadlineOf(i) == tasks[i].start + (strategy.latency_budget - tasks[i].elapsed)

\* C11: when the main task of a hedged attempt has not completed after
\* hedging_delay and the budget has not run out by then, the attempt sends
\* once to every other sender at that instant; the main task is still running
\* then and is not sent again, so every sender has exactly one transport call
\* in that attempt.
C11_FanOutSendsOnceToEveryOtherSender ==
    klass = "HedgingMultiClient" =>
        \A i \in 1..Len(tasks) :
           tasks[i].primary =>
              LET p == tasks[i].req
                  a == tasks[i].att
                  due == tasks[i].start + strategy.extra_strategy.hedging_delay
                  waiting == req[p].att = a /\ req[p].pc = "hedge_wait"
                  late == /\ due < DeadlineOf(i)
                          /\ \/ now > due
                             \/ now = due /\ ~waiting
                          /\ tasks[i].state = "done" => tasks[i].end >= due
              IN  /\ late =>
                       /\ \A s \in Senders :
                            Cardinality({j \in TasksOfAttempt(p, a) :
                                            tasks[j].sender = s}) = 1
                       /\ \A j \in TasksOfAttempt(p, a) :
                            j # i => ~tasks[j].primary /\ tasks[j].start = due
                       /\ tasks[i].state = "cancelled" => tasks[i].end >= due
                  /\ (req[p].att = a /\ req[p].pc = "hedged") =>
                       late /\ tasks[i].state = "pending"
                  /\ ~late => TasksOfAttempt(p, a) = {i}

C11_Witness ==
    /\ klass = "HedgingMultiClient" /\ n_senders = 2
    /\ strategy.extra_strategy.hedging_delay = 1
    /\ Len(tasks) = 4
    /\ tasks[1].primary /\ tasks[1].sender = 1 /\ tasks[2].sender = 2
    /\ tasks[3].primary /\ tasks[3].sender = 2 /\ tasks[4].sender = 1
    /\ tasks[4].start = tasks[3].start + 1
    /\ req[1].pc = "hedged" /\ tasks[3].state = "pending"

\* C12: after the fan-out the outcome of the attempt is the outcome of a send
\* of that attempt that completed first, OK or not, main or not; no send of
\* the attempt completed earlier, and every send of the attempt that had not
\* completed at that instant was cancelled at that instant.
C12_FirstCompletedDecidesTheAttempt ==
    \A p \in Reqs : \A a \in 1..Len(req[p].results) :
       FannedOut(p, a) =>
          \E i \in TasksOfAttempt(p, a) :
             /\ tasks[i].state = "done"
             /\ tasks[i].outcome = req[p].results[a]
             /\ \A j \in TasksOfAttempt(p, a) :
                  /\ tasks[j].end = tasks[i].end
                  /\ tasks[j].state \in {"done", "cancelled"}
                  /\ j # i => tasks[j].outcome \in {"unread", "none"}

C12_Witness ==
    /\ klass = "HedgingMultiClient" /\ n_senders = 2
    /\ Len(tasks) = 4 /\ Len(req[1].results) = 2
    /\ FannedOut(1, 1) /\ FannedOut(1, 2)
    /\ ~tasks[2].primary /\ tasks[2].state = "done"
    /\ tasks[2].outcome = "INTERNAL_SERVER_ERROR" /\ tasks[1].state = "cancelled"
    /\ tasks[3].primary /\ tasks[3].state = "done" /\ tasks[3].outcome = "OK"
    /\ tasks[4].state = "cancelled"
    /\ req[1].result = "OK"

\* C13 as claimed: when a call has returned or raised, every transport task
\* it started has completed or has been cancelled.
C13_Claimed_NoOrphanSends ==
    \A p \in Reqs : Done(p) =>
        \A i \in TasksOf(p) : tasks[i].state \in {"done", "cancelled"}

\* C14: when a call records a failure on a managed sender, False is appended
\* to the sender's window and the failure rate of the window after the append
\* decides: at or above failure_threshold, _recover_at becomes now +
\* recovery_timeout and the circuit is open from now on for recovery_timeout;
\* below it, _recover_at stays what it was.  No circuit is ever open for
\* longer than recovery_timeout from now.
C14_FailureOpensAtThreshold ==
    /\ [](klass = "CircuitBreakerMultiClient" =>
            \A s \in Senders :
               managed_senders[s].recover_at
                  <= now + strategy.extra_strategy.recovery_timeout)
    /\ [][\A p \in Reqs :
            ( /\ klass = "CircuitBreakerMultiClient"
              /\ req[p].pc = "sending"
              /\ \E i \in PendingTasks(p) :
                   tasks'[i].state = "done" /\ tasks'[i].outcome # "OK" )
            => LET before == managed_senders[req[p].rec]
                   after == managed_senders'[req[p].rec]
                   window == DequeAppend(before.last_results, FALSE,
                                         strategy.extra_strategy.window_size)
                   rate == <<Failures(window), Len(window)>>
               IN  /\ after.last_results = window
                   /\ \A s \in Senders :
                        s # req[p].rec => managed_senders'[s] = managed_senders[s]
                   /\ IF RateAtLeast(rate, strategy.extra_strategy.failure_threshold)
                      THEN /\ after.recover_at
                                = now + strategy.extra_strategy.recovery_timeout
                           /\ now' < after.recover_at
                      ELSE after.recover_at = before.recover_at]_vars

C14_Witness ==
    /\ klass = "CircuitBreakerMultiClient"
    /\ strategy.extra_strategy.failure_threshold = [num |-> 1, den |-> 1]
    /\ \E s, t \in Senders :
         /\ managed_senders[s].last_results = <<TRUE, FALSE>>
         /\ managed_senders[s].recover_at = DatetimeMin
         /\ managed_senders[t].last_results = <<FALSE>>
         /\ is_circuit_open(managed_senders[t])

\* C15: a circuit breaker client starts a transport call only on a sender
\* whose circuit is closed at that moment.  When a call passes the attempt
\* and budget checks and some sender is closed, it sends once, to a closed
\* sender; when every sender is open it raises CIRCUIT_BREAKER_OPEN and makes
\* no transport call.
C15_NeverSendsToAnOpenCircuit ==
    [][klass = "CircuitBreakerMultiClient" =>
         LET open(s) == now' < managed_senders'[s].recover_at
         IN  /\ \A i \in 1..Len(tasks') :
                  i > Len(tasks) => ~open(tasks'[i].sender)
             /\ \A p \in Reqs :
                  req'[p].att = req[p].att + 1 =>
                     IF \E s \in Senders : ~open(s)
                     THEN /\ Len(tasks') = Len(tasks) + 1
                          /\ tasks'[Len(tasks')].req = p
                          /\ req'[p].pc = "sending"
                          /\ ~open(req'[p].rec)
                     ELSE /\ Len(tasks') = Len(tasks)
                          /\ req'[p].pc = "done"
                          /\ req'[p].reason = "CIRCUIT_BREAKER_OPEN"
                  ]_vars

C15_Witness ==
    /\ klass = "CircuitBreakerMultiClient" /\ n_senders = 2
    /\ Done(1) /\ req[1].reason = "CIRCUIT_BREAKER_OPEN"
    /\ req[1].att = 3 /\ Len(tasks) = 2
    /\ \A s \in Senders : is_circuit_open(managed_senders[s])

\* the circuits opened during call p are still open: the call took less than
\* recovery_timeout
RecoveryOutlasts(p) ==
    req[p].ended - req[p].began < strategy.extra_strategy.recovery_timeout

RateIs(m, n, d) == RateEq(failure_rate(m), <<n, d>>)

\* C16 as claimed: a fresh circuit breaker client over N senders that all
\* fail retryably, with failure_threshold 1/2, max_retries = N, a
\* recovery_timeout longer than the call and a budget that does not run out,
\* raises CIRCUIT_BREAKER_OPEN, with every circuit open at failure rate 1.
C16_Claimed_AllFailingRaisesCircuitBreakerOpen ==
    ( /\ klass = "CircuitBreakerMultiClient"
      /\ Done(1) /\ FreshRun(1)
      /\ strategy.max_retries = n_senders
      /\ strategy.extra_strategy.failure_threshold = [num |-> 1, den |-> 2]
      /\ AllFailedRetryable(1)
      /\ req[1].reason # "LATENCY_BUDGET_EXHAUSTED"
      /\ RecoveryOutlasts(1) )
    => /\ req[1].reason = "CIRCUIT_BREAKER_OPEN"
       /\ \A s \in Senders :
            is_circuit_open(managed_senders[s]) /\ RateIs(managed_senders[s], 1, 1)

\* sender N answers OK, every other sender a retryable failure
OnlyLastSenderHealthy ==
    \A i \in 1..Len(tasks) :
       tasks[i].state = "done" =>
          tasks[i].outcome =
             (IF tasks[i].sender = n_senders THEN "OK" ELSE "INTERNAL_SERVER_ERROR")

\* C17 as claimed: a fresh circuit breaker client over senders 1..N of which
\* only sender N answers OK, the others failing retryably, with max_retries
\* >= N, a recovery_timeout longer than the call and a budget that does not
\* run out, returns OK; senders 1..N-1 were each called once and are open at
\* failure rate 1, sender N is closed at failure rate 0.
C17_Claimed_HealthySenderIsReached ==
    ( /\ klass = "CircuitBreakerMultiClient"
      /\ Done(1) /\ FreshRun(1)
      /\ strategy.max_retries >= n_senders
      /\ OnlyLastSenderHealthy
      /\ req[1].reason # "LATENCY_BUDGET_EXHAUSTED"
      /\ RecoveryOutlasts(1) )
    => /\ req[1].result = "OK"
       /\ \A s \in Senders :
            IF s < n_senders
            THEN /\ is_circuit_open(managed_senders[s])
                 /\ RateIs(managed_senders[s], 1, 1)
                 /\ Cardinality({i \in TasksOf(1) : tasks[i].sender = s}) = 1
            ELSE /\ ~is_circuit_open(managed_senders[s])
                 /\ RateIs(managed_senders[s], 0, 1)

\* C18 as claimed: every call starts from _current_attempt = 0 and
\* _time_spent = 0, whatever earlier or overlapping calls on the same client
\* did: the first transport call of a call is made with both at 0, and a call
\* raises MAX_RETRIES_EXCEEDED only after max_retries attempts of its own.
C18_Claimed_PerRequestState ==
    /\ \A i \in 1..Len(tasks) :
         tasks[i].att = 1 => tasks[i].attempts_used = 0 /\ tasks[i].elapsed = 0
    /\ \A p \in Reqs :
         (Done(p) /\ req[p].reason = "MAX_RETRIES_EXCEEDED") =>
            req[p].att = strategy.max_retries

\* call p runs the checks at the start of an iteration in this step: it is
\* called, or it has classified a result as a retryable failure
StartsIteration(p) ==
    \/ req[p].pc = "idle" /\ req'[p].pc # "idle"
    \/ /\ Len(req'[p].results) > Len(req[p].results)
       /\ Retryable(req'[p].results[Len(req'[p].results)])

C20_CancelledSendRecordsNothing ==
    [][klass = "CircuitBreakerMultiClient" =>
         /\ \A p \in Reqs :
              (Active(p) /\ now = req[p].deadline /\ req'[p] # req[p]) =>
                 /\ req'[p].reason = "LATENCY_BUDGET_EXHAUSTED"
                 /\ managed_senders' = managed_senders
                 /\ \A i \in PendingTasks(p) : tasks'[i].state = "cancelled"
         /\ managed_senders' # managed_senders =>
              \E p \in Reqs : \E i \in PendingTasks(p) : tasks'[i].state = "done"
      ]_vars

C20_Witness ==
    /\ klass = "CircuitBreakerMultiClient" /\ n_senders = 2
    /\ Done(1) /\ FreshRun(1)
    /\ req[1].reason = "LATENCY_BUDGET_EXHAUSTED"
    /\ Len(tasks) = 2
    /\ tasks[1].state = "done" /\ tasks[2].state = "cancelled"
    /\ \E s \in Senders :
         /\ managed_senders[s].last_results = <<FALSE>>
         /\ \A t \in Senders : t # s => managed_senders[t] = ManagedSender

\* C21: a hedged attempt is one attempt.  Each step in which a hedging
\* client classifies a result as a retryable failure adds exactly 1 to
\* _current_attempt, whether the attempt made one transport call or one per
\* sender; a call starts at most max_retries attempts, each with at most one
\* transport call per sender, so at most max_retries * N transport calls.
C21_HedgedAttemptCountsOnce ==
    /\ [](klass = "HedgingMultiClient" =>
            \A p \in Reqs :
               /\ req[p].att <= strategy.max_retries
               /\ Calls(p) <= strategy.max_retries * n_senders
               /\ \A a \in 1..req[p].att :
                    Cardinality(TasksOfAttempt(p, a)) \in 1..n_senders)
    /\ [][klass = "HedgingMultiClient" =>
            \A p \in Reqs :
               IF /\ Len(req'[p].results) > Len(req[p].results)
                  /\ Retryable(req'[p].results[Len(req'[p].results)])
               THEN current_attempt' = current_attempt + 1
               ELSE req'[p] # req[p] => current_attempt' = current_attempt]_vars

C21_Witness ==
    /\ klass = "HedgingMultiClient" /\ n_senders = 2
    /\ strategy.max_retries = 2
    /\ Done(1) /\ FreshRun(1)
    /\ req[1].reason = "MAX_RETRIES_EXCEEDED"
    /\ req[1].att = 2 /\ Calls(1) = 4 /\ current_attempt = 2

\* how many results of kind b (TRUE a success, FALSE a failure) the windows
\* of the managed senders hold
RECURSIVE Recorded(_, _)
Recorded(n, b) ==
    IF n = 0 THEN 0
    ELSE Recorded(n - 1, b)
           + Cardinality({k \in 1..Len(managed_senders[n].last_results) :
                             managed_senders[n].last_results[k] = b})

\* how many of the results call p has classified were OK
OkResults(p) ==
    Cardinality({a \in 1..Len(req[p].results) : req[p].results[a] = "OK"})

\* how many of them were failures outside fast_errors
RetryableResults(p) ==
    Cardinality({a \in 1..Len(req[p].results) : Retryable(req[p].results[a])})

\* C22 as claimed: on a fresh circuit breaker client the windows hold a
\* success only for a result OK and a failure only for a result that is
\* neither OK nor in fast_errors; a result in fast_errors leaves the windows
\* and _recover_at of all senders as they were.
C22_Claimed_FastErrorIsNotRecorded ==
    (klass = "CircuitBreakerMultiClient" /\ FreshRun(1)) =>
        /\ Recorded(n_senders, TRUE) <= OkResults(1)
        /\ Recorded(n_senders, FALSE) <= RetryableResults(1)
        /\ RetryableResults(1) = 0 =>
             \A s \in Senders : managed_senders[s].recover_at = DatetimeMin

\* the record operations made on sender s so far, in order
RecordsOn(s) == SelectSeq(records, LAMBDA r : r.sender = s)

\* C23: after any sequence of record operations on a managed sender its
\* window holds the most recent min(k, window_size) of the k results
\* recorded, oldest first, so never more than window_size; failure_rate is
\* the number of failures in the window over its length, and 0 for an empty
\* window; and record_success leaves _recover_at as it was.
C23_WindowHoldsTheMostRecentResults ==
    /\ [](\A s \in DOMAIN managed_senders :
            LET log == RecordsOn(s)
                k == Len(log)
                w == strategy.extra_strategy.window_size
                n == IF k < w THEN k ELSE w
                window == managed_senders[s].last_results
            IN  /\ Len(window) = n
                /\ Len(window) <= w
                /\ \A j \in 1..n : window[j] = log[k - n + j].ok
                /\ failure_rate(managed_senders[s]) =
                      IF n = 0 THEN <<0, 1>>
                      ELSE <<Cardinality({j \in 1..n : ~log[k - n + j].ok}), n>>)
    /\ [][(Len(records') > Len(records) /\ records'[Len(records')].ok) =>
            \A s \in DOMAIN managed_senders :
               managed_senders'[s].recover_at = managed_senders[s].recover_at]_vars

C23_Witness ==
    /\ n_requests = 0
    /\ strategy.extra_strategy.window_size = 2
    /\ Len(records) = 4
    /\ ~records[1].ok /\ ~records[2].ok /\ records[3].ok /\ ~records[4].ok
    /\ managed_senders[1].last_results = <<TRUE, FALSE>>
    /\ is_circuit_open(managed_senders[1])

\* max(0, _recover_at - now)
TimeUntilRecovery(m) == IF m.recover_at > now THEN m.recover_at - now ELSE 0

\* a comes before b under the key (is open, failure rate, time until
\* recovery), each ascending
HealthierThan(a, b) ==
    \/ ~is_circuit_open(a) /\ is_circuit_open(b)
    \/ /\ is_circuit_open(a) = is_circuit_open(b)
       /\ RateLess(failure_rate(a), failure_rate(b))
    \/ /\ is_circuit_open(a) = is_circuit_open(b)
       /\ RateEq(failure_rate(a), failure_rate(b))
       /\ TimeUntilRecovery(a) < TimeUntilRecovery(b)

\* C24 as claimed: the sender _select_sender returns is a minimum under that
\* key.  Stated at the moment a call has raised CIRCUIT_BREAKER_OPEN, when
\* _sender is the sender the selection just returned: no sender is closed
\* while it is open, has a lower failure rate in the same state, or at the
\* same failure rate recovers sooner.
C24_Claimed_SelectsTheMinimumOfTheKey ==
    \A p \in Reqs :
       ( /\ klass = "CircuitBreakerMultiClient"
         /\ FreshRun(p) /\ Done(p)
         /\ req[p].reason = "CIRCUIT_BREAKER_OPEN"
         /\ req[p].ended = now )
       => \A s \in Senders :
             ~HealthierThan(managed_senders[s], managed_senders[sender])

\* C25 as claimed: in every attempt of a circuit breaker client the sender
\* the transport call goes to is the sender whose circuit was checked and on
\* which the result will be recorded: the two selections of the attempt
\* return the same sender.
C25_Claimed_SendsToTheCheckedSender ==
    klass = "CircuitBreakerMultiClient" =>
        \A p \in Reqs :
           req[p].pc = "sending" =>
              \A i \in PendingTasks(p) : tasks[i].sender = req[p].rec

\* the transport tasks of call p that are in flight
InFlight(p) == {i \in TasksOf(p) : tasks[i].state = "pending"}

\* C26: with timers firing, every call that has been made returns or
\* raises, whatever the transports do, also when a send never completes.
\* Attempts are sequential: a call is in attempt k+1 only after it has
\* classified the results of attempts 1..k, and on a client that does not
\* hedge a call has at most one transport task in flight, each task of an
\* earlier attempt having completed before the next one started.
C26_EveryCallEndsAndAttemptsAreSequential ==
    /\ \A p \in Reqs : Active(p) ~> Done(p)
    /\ [](\A p \in Reqs :
            /\ Len(req[p].results) \in {req[p].att - 1, req[p].att}
            /\ Active(p) => Len(req[p].results) = req[p].att - 1
            /\ klass # "HedgingMultiClient" =>
                 /\ Cardinality(InFlight(p)) <= 1
                 /\ \A i, j \in TasksOf(p) :
                      tasks[i].att < tasks[j].att =>
                         /\ tasks[i].state = "done"
                         /\ tasks[i].end <= tasks[j].start)

C26_Witness ==
    /\ klass = "BackoffClient" /\ Done(1) /\ FreshRun(1)
    /\ req[1].reason = "LATENCY_BUDGET_EXHAUSTED"
    /\ Len(tasks) = 3
    /\ tasks[1].state = "done" /\ tasks[2].state = "done"
    /\ tasks[3].state = "cancelled"
    /\ tasks[3].end = req[1].deadline
    /\ tasks[3].end > tasks[3].start
====
